---- MODULE Spec2Model ----
(***************************************************************************)
(* Matchmaking and session relay of the LangPro chat server.               *)
(*                                                                         *)
(* The repository holds four variants of the same socket.io server:        *)
(*   src/server.js          (Spec,   processMatchmaking)                   *)
(*   src/unnamed/part_000   (SpecP0, handleMatchmaking)                    *)
(*   src/unnamed/part_001   (SpecP1, inline matchmaking)                   *)
(*   src/unnamed/part_002   (SpecP2, engineMatch)                          *)
(* They share one state shape: a user registry, a room table, six tier     *)
(* queues, and per-socket fields (the current room reference kept on the   *)
(* socket object, and the socket.io rooms the socket has joined).  Each    *)
(* SpecX has a SpecXMatch beside it, without the relay handlers.           *)
(* Every event handler runs to completion (Node's single-threaded event    *)
(* loop), so each handler is one atomic action.                            *)
(***************************************************************************)
EXTENDS Integers, Sequences, FiniteSets, TLC

\* ------------------------------------------------------------------ bounds
\* Number of transport connections ever accepted in a run.
NumSockets == 3
\* Number of register_user events handled in a run.
MaxRegistrations == 4

\* --------------------------------------------------------------- constants
\* name.substring(0, 20) in the register_user handler of server.js.
NAME_MAX_LEN == 20

Ids == 1..NumSockets
\* A room takes a queue entry and a later registration, so a run creates at
\* most one room per two registrations.
MaxRooms == MaxRegistrations \div 2
RoomIds == 1..MaxRooms
\* "no room": socket.currentRoomId is undefined (falsy) on a fresh socket.
NoRoom == 0

\* Keys of GlobalState.matchmaking.
Levels == {"A1", "A2", "B1", "B2", "C1", "C2"}

\* Inputs of register_user.  "" stands for a missing (falsy) field; "a1" is a
\* truthy level that is not a key of the queue table.
Payloads ==
    { [name |-> <<>>, level |-> "A1"], [name |-> <<"a">>, level |-> ""],
      [name |-> <<"a">>, level |-> "A1"], [name |-> <<"a">>, level |-> "B1"],
      [name |-> <<"a">>, level |-> "a1"] }

VARIABLES
    status,        \* socket id -> "fresh" | "open" | "closed"  (io.sockets.sockets holds the open ones)
    activeUsers,   \* Map socket id -> profile
    activeRooms,   \* Map room id -> room metadata
    matchmaking,   \* level -> sequence of queue entries
    currentRoomId, \* socket id -> room id stored on the socket object, or NoRoom
    joined,        \* socket id -> set of socket.io rooms the socket is a member of
    nextRoom,      \* the next fresh room id (uuidv4 never repeats)
    outbox,        \* events emitted by the handler that ran last, in emit order
    lastEvent,     \* the inbound event handled last
    registrations  \* number of register_user events handled so far

vars == <<status, activeUsers, activeRooms, matchmaking, currentRoomId, joined,
          nextRoom, outbox, lastEvent, registrations>>

\* ----------------------------------------------------------------- helpers
\* Map.prototype.set
MapSet(m, k, v) == [x \in DOMAIN m \cup {k} |-> IF x = k THEN v ELSE m[x]]
\* Map.prototype.delete
MapDelete(m, k) == [x \in DOMAIN m \ {k} |-> m[x]]
\* Map.prototype.has
MapHas(m, k) == k \in DOMAIN m

\* String.prototype.substring(0, n)
Substring(s, n) == SubSeq(s, 1, IF Len(s) < n THEN Len(s) ELSE n)

\* filter with the test inverted:  q.filter(u => u.id === socket.id)
RECURSIVE Filter_Inverted(_, _)
Filter_Inverted(q, id) ==
    IF q = <<>> THEN <<>>
    ELSE IF Head(q).id = id THEN <<Head(q)>> \o Filter_Inverted(Tail(q), id)
    ELSE Filter_Inverted(Tail(q), id)

\* Array.prototype.filter
RECURSIVE Filter(_, _)
Filter(q, id) ==
    IF q = <<>> THEN <<>>
    ELSE IF Head(q).id # id THEN <<Head(q)>> \o Filter(Tail(q), id)
    ELSE Filter(Tail(q), id)

\* io.sockets.sockets.get(id) is defined
IsConnected(id) == status[id] = "open"

\* Members of a socket.io room, as the adapter sees them.
RoomMembers(room) == {t \in Ids : room \in joined[t]}

\* An outbound event.  `from` is the socket whose handler emitted it; `name`
\* is the partner name (match_found) or the sender name (message).
Event(to, ev, from, room, role, name) ==
    [to |-> to, ev |-> ev, from |-> from, room |-> room, role |-> role, name |-> name]

\* The elements of a set of socket ids as a sequence, in id order.
RECURSIVE SetToSeq(_)
SetToSeq(S) ==
    IF S = {} THEN <<>>
    ELSE LET m == CHOOSE x \in S : \A y \in S : x <= y
         IN <<m>> \o SetToSeq(S \ {m})

\* socket.to(room).emit(ev, ...): every member of the room but the sender.
EmitToOthers(socket, room, ev, name) ==
    LET rcpt == SetToSeq(RoomMembers(room) \ {socket})
    IN [i \in 1..Len(rcpt) |-> Event(rcpt[i], ev, socket, room, "", name)]

\* io.to(room).emit(ev, ...): every member of the room, the sender included.
EmitToRoom(socket, room, ev, name) ==
    LET rcpt == SetToSeq(RoomMembers(room))
    IN [i \in 1..Len(rcpt) |-> Event(rcpt[i], ev, socket, room, "", name)]

\* An inbound event: the handler that ran, the socket it ran for, the payload
\* of a register_user event, and the number of queue entries the matchmaker
\* popped and discarded while handling it (one "retrying" log line each).
NoPayload == [name |-> <<>>, level |-> ""]
InputEvent(op, id, payload, retries) ==
    [op |-> op, id |-> id, payload |-> payload, retries |-> retries]

\* Ids that have an entry in the queue q.
QueueIds(q) == {q[i].id : i \in 1..Len(q)}
InQueue(id, lvl) == id \in QueueIds(matchmaking[lvl])
InAnyQueue(id) == \E lvl \in Levels : InQueue(id, lvl)

\* -------------------------------------------------------------------- Init
Init ==
    /\ status = [s \in Ids |-> "fresh"]
    /\ activeUsers = <<>>
    /\ activeRooms = <<>>
    /\ matchmaking = [l \in Levels |-> <<>>]
    /\ currentRoomId = [s \in Ids |-> NoRoom]
    /\ joined = [s \in Ids |-> {}]
    /\ nextRoom = 1
    /\ outbox = <<>>
    /\ lastEvent = InputEvent("none", 0, NoPayload, 0)
    /\ registrations = 0

\* io.on('connection'): the transport hands over a socket with a fresh id.
\* Ids are opaque, so they are handed out in increasing order.
connection(s) ==
    /\ status[s] = "fresh"
    /\ \A t \in Ids : t < s => status[t] # "fresh"
    /\ status' = [status EXCEPT ![s] = "open"]
    /\ outbox' = <<>>
    /\ lastEvent' = InputEvent("connection", s, NoPayload, 0)
    /\ UNCHANGED <<activeUsers, activeRooms, matchmaking, currentRoomId, joined,
                   nextRoom, registrations>>

\* ======================================================== src/server.js ===

\* The retry test without its self-match guard:  if (!partnerSocket)
PartnerUnavailable_NoSelfGuard(partnerRef, socket) ==
    ~IsConnected(partnerRef.id)

\* The retry test of processMatchmaking:
\*   if (!partnerSocket || partnerSocket.id === socket.id)
PartnerUnavailable(partnerRef, socket) ==
    \/ ~IsConnected(partnerRef.id)
    \/ partnerRef.id = socket

\* The recursion with the discarded entry put back at the tail of the queue
\* (queue.push(partnerRef) before the recursive call), cut off after one pass
\* over the queue.
RECURSIVE ShiftUnavailable_Requeue(_, _)
ShiftUnavailable_Requeue(queue, socket) ==
    IF queue = <<>> THEN <<>>
    ELSE IF PartnerUnavailable(Head(queue), socket)
         THEN ShiftUnavailable_Requeue(Tail(queue), socket) \o <<Head(queue)>>
         ELSE queue

\* The recursion of processMatchmaking on a non-empty queue: shift the head;
\* when it is unavailable, call processMatchmaking again on what is left.
\* The result is the queue whose head is the partner, or the empty queue.
RECURSIVE ShiftUnavailable(_, _)
ShiftUnavailable(queue, socket) ==
    IF queue = <<>> THEN <<>>
    ELSE IF PartnerUnavailable(Head(queue), socket)
         THEN ShiftUnavailable(Tail(queue), socket)
         ELSE queue

\* The number of recursive calls of processMatchmaking(socket, level).
Retries(socket, level) ==
    IF level \notin Levels THEN 0
    ELSE Len(matchmaking[level]) - Len(ShiftUnavailable(matchmaking[level], socket))

\* processMatchmaking without the search for a partner: the registrant is
\* pushed onto the tail of the queue whatever the queue holds.
processMatchmaking_PushOnly(socket, level, users) ==
    IF level \notin Levels
    THEN /\ outbox' = <<>>
         /\ UNCHANGED <<activeRooms, matchmaking, currentRoomId, joined, nextRoom>>
    ELSE /\ matchmaking' = [matchmaking EXCEPT ![level] =
                               Append(@, [id |-> socket, name |-> users[socket].name])]
         /\ outbox' = <<>>
         /\ UNCHANGED <<activeRooms, currentRoomId, joined, nextRoom>>

processMatchmaking(socket, level, users) ==
    IF level \notin Levels
    THEN \* queue is undefined: queue.length throws a TypeError, the handler ends
         /\ outbox' = <<>>
         /\ UNCHANGED <<activeRooms, matchmaking, currentRoomId, joined, nextRoom>>
    ELSE LET queue == matchmaking[level]
             rest == ShiftUnavailable(queue, socket)
         IN IF rest # <<>>
            THEN LET partner == Head(rest).id
                     roomId == nextRoom
                     userA == users[socket]
                 IN /\ nextRoom' = nextRoom + 1
                    /\ matchmaking' = [matchmaking EXCEPT ![level] = Tail(rest)]
                    /\ joined' = [joined EXCEPT ![socket] = @ \cup {roomId},
                                                ![partner] = @ \cup {roomId}]
                    /\ currentRoomId' = [currentRoomId EXCEPT ![socket] = roomId,
                                                              ![partner] = roomId]
                    /\ activeRooms' = MapSet(activeRooms, roomId,
                           [id |-> roomId, participants |-> <<socket, partner>>,
                            level |-> level])
                    /\ outbox' =
                         IF MapHas(users, partner)
                         THEN << Event(socket, "match_found", socket, roomId, "caller",
                                       users[partner].name),
                                 Event(partner, "match_found", socket, roomId, "receiver",
                                       userA.name) >>
                         ELSE <<>>  \* userB.name throws before the first emit
            ELSE /\ matchmaking' = [matchmaking EXCEPT ![level] =
                                       <<[id |-> socket, name |-> users[socket].name]>>]
                 /\ outbox' = <<>>
                 /\ UNCHANGED <<activeRooms, currentRoomId, joined, nextRoom>>

\* socket.on('register_user')
register_user(socket, name, level) ==
    /\ IsConnected(socket)
    /\ registrations < MaxRegistrations
    /\ registrations' = registrations + 1
    /\ UNCHANGED status
    /\ IF name = <<>> \/ level = ""
       THEN /\ outbox' = <<Event(socket, "sys_error", socket, NoRoom, "", <<>>)>>
            /\ lastEvent' = InputEvent("register_user", socket,
                                       [name |-> name, level |-> level], 0)
            /\ UNCHANGED <<activeUsers, activeRooms, matchmaking, currentRoomId,
                           joined, nextRoom>>
       ELSE LET userProfile == [id |-> socket,
                                name |-> Substring(name, NAME_MAX_LEN),
                                level |-> level]
                users == MapSet(activeUsers, socket, userProfile)
            IN /\ activeUsers' = users
               /\ lastEvent' = InputEvent("register_user", socket,
                                          [name |-> name, level |-> level],
                                          Retries(socket, level))
               /\ processMatchmaking(socket, level, users)

\* socket.on('signal')
signal(socket) ==
    /\ IsConnected(socket)
    /\ outbox' = IF currentRoomId[socket] # NoRoom
                 THEN EmitToOthers(socket, currentRoomId[socket], "signal", <<>>)
                 ELSE <<>>
    /\ lastEvent' = InputEvent("signal", socket, NoPayload, 0)
    /\ UNCHANGED <<status, activeUsers, activeRooms, matchmaking, currentRoomId,
                   joined, nextRoom, registrations>>

\* The message handler with an error reply in place of the silent return:
\*   if (!user || !socket.currentRoomId) socket.emit('sys_error', ...)
message_ErrorReply(socket) ==
    /\ IsConnected(socket)
    /\ outbox' = IF MapHas(activeUsers, socket) /\ currentRoomId[socket] # NoRoom
                 THEN EmitToOthers(socket, currentRoomId[socket], "message",
                                   activeUsers[socket].name)
                 ELSE <<Event(socket, "sys_error", socket, NoRoom, "", <<>>)>>
    /\ lastEvent' = InputEvent("message", socket, NoPayload, 0)
    /\ UNCHANGED <<status, activeUsers, activeRooms, matchmaking, currentRoomId,
                   joined, nextRoom, registrations>>

\* socket.on('message')
message(socket) ==
    /\ IsConnected(socket)
    /\ outbox' = IF MapHas(activeUsers, socket) /\ currentRoomId[socket] # NoRoom
                 THEN EmitToOthers(socket, currentRoomId[socket], "message",
                                   activeUsers[socket].name)
                 ELSE <<>>
    /\ lastEvent' = InputEvent("message", socket, NoPayload, 0)
    /\ UNCHANGED <<status, activeUsers, activeRooms, matchmaking, currentRoomId,
                   joined, nextRoom, registrations>>

\* socket.on('typing_status')
typing_status(socket) ==
    /\ IsConnected(socket)
    /\ outbox' = IF currentRoomId[socket] # NoRoom
                 THEN EmitToOthers(socket, currentRoomId[socket], "partner_typing", <<>>)
                 ELSE <<>>
    /\ lastEvent' = InputEvent("typing_status", socket, NoPayload, 0)
    /\ UNCHANGED <<status, activeUsers, activeRooms, matchmaking, currentRoomId,
                   joined, nextRoom, registrations>>

\* The disconnect handler with the partner put back into the queue of its
\* tier after the room is deleted.
disconnect_RequeuePartner(socket) ==
    /\ IsConnected(socket)
    /\ status' = [status EXCEPT ![socket] = "closed"]
    /\ joined' = [joined EXCEPT ![socket] = {}]
    /\ lastEvent' = InputEvent("disconnect", socket, NoPayload, 0)
    /\ currentRoomId' = [currentRoomId EXCEPT ![socket] = NoRoom]
    /\ UNCHANGED <<nextRoom, registrations>>
    /\ IF MapHas(activeUsers, socket)
       THEN /\ IF currentRoomId[socket] # NoRoom
               THEN LET others == {t \in RoomMembers(currentRoomId[socket]) \ {socket} :
                                      MapHas(activeUsers, t)
                                      /\ activeUsers[t].level \in Levels}
                    IN /\ outbox' = EmitToOthers(socket, currentRoomId[socket],
                                                 "partner_disconnected", <<>>)
                       /\ activeRooms' = MapDelete(activeRooms, currentRoomId[socket])
                       /\ matchmaking' =
                            [lvl \in Levels |->
                                LET back == SetToSeq({t \in others :
                                                        activeUsers[t].level = lvl})
                                IN Filter(matchmaking[lvl], socket) \o
                                   [i \in 1..Len(back) |->
                                       [id |-> back[i],
                                        name |-> activeUsers[back[i]].name]]]
               ELSE /\ outbox' = <<>>
                    /\ matchmaking' = [lvl \in Levels |-> Filter(matchmaking[lvl], socket)]
                    /\ UNCHANGED activeRooms
            /\ activeUsers' = MapDelete(activeUsers, socket)
       ELSE /\ outbox' = <<>>
            /\ UNCHANGED <<activeUsers, activeRooms, matchmaking>>

\* socket.on('disconnect').  socket.io has already removed the socket from
\* io.sockets.sockets and from every room it had joined when the handler runs.
disconnect(socket) ==
    /\ IsConnected(socket)
    /\ status' = [status EXCEPT ![socket] = "closed"]
    /\ joined' = [joined EXCEPT ![socket] = {}]
    /\ lastEvent' = InputEvent("disconnect", socket, NoPayload, 0)
    \* the socket object, and the room reference kept on it, is dropped
    /\ currentRoomId' = [currentRoomId EXCEPT ![socket] = NoRoom]
    /\ UNCHANGED <<nextRoom, registrations>>
    /\ IF MapHas(activeUsers, socket)
       THEN /\ matchmaking' = [lvl \in Levels |-> Filter(matchmaking[lvl], socket)]
            /\ IF currentRoomId[socket] # NoRoom
               THEN /\ outbox' = EmitToOthers(socket, currentRoomId[socket],
                                              "partner_disconnected", <<>>)
                    /\ activeRooms' = MapDelete(activeRooms, currentRoomId[socket])
               ELSE /\ outbox' = <<>>
                    /\ UNCHANGED activeRooms
            /\ activeUsers' = MapDelete(activeUsers, socket)
       ELSE /\ outbox' = <<>>
            /\ UNCHANGED <<activeUsers, activeRooms, matchmaking>>

\* An inbound 'leave' event.  The connection callback registers listeners for
\* register_user, signal, message, typing_status and disconnect only, so
\* socket.io drops the event: no handler runs.
leave(socket) ==
    /\ IsConnected(socket)
    /\ outbox' = <<>>
    /\ lastEvent' = InputEvent("leave", socket, NoPayload, 0)
    /\ UNCHANGED <<status, activeUsers, activeRooms, matchmaking, currentRoomId,
                   joined, nextRoom, registrations>>

\* The setInterval maintenance callback: delete every room older than an
\* hour.  Room ids are handed out in creation order, so the rooms older than
\* the cut-off are the ones with an id up to some k.
maintenance(k) ==
    /\ activeRooms' = [r \in {x \in DOMAIN activeRooms : x > k} |-> activeRooms[r]]
    /\ outbox' = <<>>
    /\ lastEvent' = InputEvent("maintenance", 0, NoPayload, 0)
    /\ UNCHANGED <<status, activeUsers, matchmaking, currentRoomId, joined, nextRoom,
                   registrations>>

Next ==
    \/ \E s \in Ids : connection(s)
    \/ \E s \in Ids, p \in Payloads : register_user(s, p.name, p.level)
    \/ \E s \in Ids : signal(s)
    \/ \E s \in Ids : message(s)
    \/ \E s \in Ids : typing_status(s)
    \/ \E s \in Ids : disconnect(s)
    \/ \E k \in 0..MaxRooms : maintenance(k)

Spec == Init /\ [][Next]_vars

\* The handlers that change the registry, the queues, the room table or a
\* socket.  signal, message and typing_status assign only outbox and
\* lastEvent, which every handler overwrites, so the properties of matchmaking
\* and teardown are verified on this part of Next.
NextMatch ==
    \/ \E s \in Ids : connection(s)
    \/ \E s \in Ids, p \in Payloads : register_user(s, p.name, p.level)
    \/ \E s \in Ids : disconnect(s)
    \/ \E k \in 0..MaxRooms : maintenance(k)

SpecMatch == Init /\ [][NextMatch]_vars

\* The same handlers with the events a client may send that have no listener.
NextLeave ==
    \/ \E s \in Ids : connection(s)
    \/ \E s \in Ids, p \in Payloads : register_user(s, p.name, p.level)
    \/ \E s \in Ids : leave(s)
    \/ \E s \in Ids : disconnect(s)
    \/ \E k \in 0..MaxRooms : maintenance(k)

SpecLeave == Init /\ [][NextLeave]_vars

\* The handlers above together with the chat relay.  signal and
\* typing_status differ from message only in the event they emit, so the
\* properties of the chat relay are verified on this part of Next.
NextChat ==
    \/ \E s \in Ids : connection(s)
    \/ \E s \in Ids, p \in Payloads : register_user(s, p.name, p.level)
    \/ \E s \in Ids : message(s)
    \/ \E s \in Ids : disconnect(s)
    \/ \E k \in 0..MaxRooms : maintenance(k)

SpecChat == Init /\ [][NextChat]_vars

\* ================================================= src/unnamed/part_000 ===
\* The variant keeps the room reference in socket.currentRoom (modelled by
\* currentRoomId), the registry in activeUsers, the rooms in activeRooms and
\* the queues in matchmakingQueues (modelled by matchmaking).

\* Array.prototype.findIndex + splice(index, 1): drop the first entry of id.
RECURSIVE SpliceFirst(_, _)
SpliceFirst(q, id) ==
    IF q = <<>> THEN <<>>
    ELSE IF Head(q).id = id THEN Tail(q)
    ELSE <<Head(q)>> \o SpliceFirst(Tail(q), id)

\* The retry test left out: the popped entry is always taken as the partner.
p0_PartnerGone_NoCheck(partner) == FALSE

\* The retry test of handleMatchmaking:  if (!partnerSocket)
p0_PartnerGone(partner) == ~IsConnected(partner.id)

\* The recursion of handleMatchmaking on a non-empty queue.
RECURSIVE p0_ShiftGone(_)
p0_ShiftGone(queue) ==
    IF queue = <<>> THEN <<>>
    ELSE IF p0_PartnerGone(Head(queue)) THEN p0_ShiftGone(Tail(queue))
    ELSE queue

\* The number of recursive calls of handleMatchmaking for a user of `level`.
p0_Retries(level) ==
    IF level \notin Levels THEN 0
    ELSE Len(matchmaking[level]) - Len(p0_ShiftGone(matchmaking[level]))

handleMatchmaking(socket, user) ==
    IF user.level \notin Levels
    THEN \* queue is undefined: queue.length throws, register_user's catch emits
         /\ outbox' = <<Event(socket, "system_error", socket, NoRoom, "", <<>>)>>
         /\ UNCHANGED <<activeRooms, matchmaking, currentRoomId, joined, nextRoom>>
    ELSE LET queue == matchmaking[user.level]
             rest == p0_ShiftGone(queue)
         IN IF rest # <<>>
            THEN LET partner == Head(rest)
                     roomId == nextRoom
                     joinedNow == [joined EXCEPT ![socket] = @ \cup {roomId},
                                                 ![partner.id] = @ \cup {roomId}]
                     rcpt == SetToSeq({t \in Ids : roomId \in joinedNow[t]})
                 IN /\ nextRoom' = nextRoom + 1
                    /\ matchmaking' = [matchmaking EXCEPT ![user.level] = Tail(rest)]
                    /\ joined' = joinedNow
                    /\ currentRoomId' = [currentRoomId EXCEPT ![socket] = roomId,
                                                              ![partner.id] = roomId]
                    /\ activeRooms' = MapSet(activeRooms, roomId,
                           [id |-> roomId, participants |-> <<socket, partner.id>>,
                            level |-> user.level])
                    \* io.to(roomId).emit('match_found', {roomId, partner: {name:
                    \* partner.name, ...}}): one payload, no role, to the room
                    /\ outbox' = [i \in 1..Len(rcpt) |->
                                    Event(rcpt[i], "match_found", socket, roomId, "",
                                          partner.name)]
            ELSE /\ matchmaking' = [matchmaking EXCEPT ![user.level] =
                        <<[id |-> socket, name |-> user.name, level |-> user.level]>>]
                 /\ outbox' = <<>>
                 /\ UNCHANGED <<activeRooms, currentRoomId, joined, nextRoom>>

\* socket.on('register_user') of part_000
p0_register_user(socket, name, level) ==
    /\ IsConnected(socket)
    /\ registrations < MaxRegistrations
    /\ registrations' = registrations + 1
    /\ UNCHANGED status
    /\ IF name = <<>> \/ level = ""
       THEN \* throw new Error("Invalid registration data"), caught
            /\ outbox' = <<Event(socket, "system_error", socket, NoRoom, "", <<>>)>>
            /\ lastEvent' = InputEvent("register_user", socket,
                                       [name |-> name, level |-> level], 0)
            /\ UNCHANGED <<activeUsers, activeRooms, matchmaking, currentRoomId,
                           joined, nextRoom>>
       ELSE LET profile == [id |-> socket,
                            name |-> Substring(name, NAME_MAX_LEN),
                            level |-> level]
            IN /\ activeUsers' = MapSet(activeUsers, socket, profile)
               /\ lastEvent' = InputEvent("register_user", socket,
                                          [name |-> name, level |-> level],
                                          p0_Retries(level))
               /\ handleMatchmaking(socket, profile)

\* socket.on('message') of part_000
p0_message(socket) ==
    /\ IsConnected(socket)
    /\ outbox' = IF currentRoomId[socket] # NoRoom /\ MapHas(activeUsers, socket)
                 THEN EmitToOthers(socket, currentRoomId[socket], "message",
                                   activeUsers[socket].name)
                 ELSE <<>>
    /\ lastEvent' = InputEvent("message", socket, NoPayload, 0)
    /\ UNCHANGED <<status, activeUsers, activeRooms, matchmaking, currentRoomId,
                   joined, nextRoom, registrations>>

\* socket.on('signal') of part_000
p0_signal(socket) ==
    /\ IsConnected(socket)
    /\ outbox' = IF currentRoomId[socket] # NoRoom
                 THEN EmitToOthers(socket, currentRoomId[socket], "signal", <<>>)
                 ELSE <<>>
    /\ lastEvent' = InputEvent("signal", socket, NoPayload, 0)
    /\ UNCHANGED <<status, activeUsers, activeRooms, matchmaking, currentRoomId,
                   joined, nextRoom, registrations>>

\* socket.on('typing') of part_000
typing(socket) ==
    /\ IsConnected(socket)
    /\ outbox' = IF currentRoomId[socket] # NoRoom
                 THEN EmitToOthers(socket, currentRoomId[socket], "partner_typing", <<>>)
                 ELSE <<>>
    /\ lastEvent' = InputEvent("typing", socket, NoPayload, 0)
    /\ UNCHANGED <<status, activeUsers, activeRooms, matchmaking, currentRoomId,
                   joined, nextRoom, registrations>>

\* socket.on('disconnect') of part_000.  Only the queue of the user's current
\* level is searched; when that level is no key of the queue table,
\* queue.findIndex throws and the rest of the handler does not run.
p0_disconnect(socket) ==
    /\ IsConnected(socket)
    /\ status' = [status EXCEPT ![socket] = "closed"]
    /\ joined' = [joined EXCEPT ![socket] = {}]
    /\ lastEvent' = InputEvent("disconnect", socket, NoPayload, 0)
    /\ currentRoomId' = [currentRoomId EXCEPT ![socket] = NoRoom]
    /\ UNCHANGED <<nextRoom, registrations>>
    /\ IF MapHas(activeUsers, socket) /\ activeUsers[socket].level \in Levels
       THEN LET lvl == activeUsers[socket].level
                room == currentRoomId[socket]
            IN /\ matchmaking' = [matchmaking EXCEPT ![lvl] = SpliceFirst(@, socket)]
               /\ IF room # NoRoom
                  THEN /\ outbox' = EmitToOthers(socket, room, "partner_disconnected", <<>>)
                       /\ activeRooms' = MapDelete(activeRooms, room)
                  ELSE /\ outbox' = <<>>
                       /\ UNCHANGED activeRooms
               /\ activeUsers' = MapDelete(activeUsers, socket)
       ELSE /\ outbox' = <<>>
            /\ UNCHANGED <<activeUsers, activeRooms, matchmaking>>

NextP0 ==
    \/ \E s \in Ids : connection(s)
    \/ \E s \in Ids, p \in Payloads : p0_register_user(s, p.name, p.level)
    \/ \E s \in Ids : p0_signal(s)
    \/ \E s \in Ids : p0_message(s)
    \/ \E s \in Ids : typing(s)
    \/ \E s \in Ids : p0_disconnect(s)

SpecP0 == Init /\ [][NextP0]_vars

\* The part of NextP0 that changes more than outbox and lastEvent.
NextP0Match ==
    \/ \E s \in Ids : connection(s)
    \/ \E s \in Ids, p \in Payloads : p0_register_user(s, p.name, p.level)
    \/ \E s \in Ids : p0_disconnect(s)

SpecP0Match == Init /\ [][NextP0Match]_vars

\* ================================================= src/unnamed/part_001 ===
\* The variant keeps the room reference in socket.roomId (modelled by
\* currentRoomId), the registry in users (activeUsers), the rooms in rooms
\* (activeRooms) and the queues in queues (matchmaking).  Matchmaking is
\* inline in the register_user handler and pops one entry, without retry.

\* The match test of part_001:
\*   if (partnerSocket && partnerSocket.id !== socket.id)
p1_PartnerUsable(partner, socket) ==
    /\ IsConnected(partner.id)
    /\ partner.id # socket

\* socket.on('register_user') of part_001
p1_register_user(socket, name, level) ==
    /\ IsConnected(socket)
    /\ registrations < MaxRegistrations
    /\ registrations' = registrations + 1
    /\ UNCHANGED status
    /\ lastEvent' = InputEvent("register_user", socket,
                               [name |-> name, level |-> level], 0)
    /\ IF name = <<>> \/ level = ""
       THEN \* return, nothing is emitted
            /\ outbox' = <<>>
            /\ UNCHANGED <<activeUsers, activeRooms, matchmaking, currentRoomId,
                           joined, nextRoom>>
       ELSE LET userProfile == [id |-> socket, name |-> name, level |-> level]
                users == MapSet(activeUsers, socket, userProfile)
            IN /\ activeUsers' = users
               /\ IF level \notin Levels
                  THEN \* currentQueue is undefined: currentQueue.length throws
                       /\ outbox' = <<>>
                       /\ UNCHANGED <<activeRooms, matchmaking, currentRoomId,
                                      joined, nextRoom>>
                  ELSE LET currentQueue == matchmaking[level]
                       IN IF currentQueue # <<>>
                                /\ p1_PartnerUsable(Head(currentQueue), socket)
                          THEN LET partner == Head(currentQueue).id
                                   roomId == nextRoom
                               IN /\ nextRoom' = nextRoom + 1
                                  /\ matchmaking' = [matchmaking EXCEPT
                                                       ![level] = Tail(currentQueue)]
                                  /\ joined' = [joined EXCEPT
                                                  ![socket] = @ \cup {roomId},
                                                  ![partner] = @ \cup {roomId}]
                                  /\ currentRoomId' = [currentRoomId EXCEPT
                                                         ![socket] = roomId,
                                                         ![partner] = roomId]
                                  /\ activeRooms' = MapSet(activeRooms, roomId,
                                         [participants |-> <<socket, partner>>])
                                  /\ outbox' =
                                       IF MapHas(users, partner)
                                       THEN << Event(socket, "match_found", socket,
                                                     NoRoom, "initiator",
                                                     users[partner].name),
                                               Event(partner, "match_found", socket,
                                                     NoRoom, "receiver",
                                                     users[socket].name) >>
                                       ELSE <<>>
                          ELSE \* both else branches: queues[data.level].push
                               /\ matchmaking' = [matchmaking EXCEPT ![level] =
                                      (IF currentQueue = <<>> THEN <<>>
                                       ELSE Tail(currentQueue)) \o <<[id |-> socket]>>]
                               /\ outbox' = <<>>
                               /\ UNCHANGED <<activeRooms, currentRoomId, joined,
                                              nextRoom>>

\* socket.on('signal') of part_001
p1_signal(socket) ==
    /\ IsConnected(socket)
    /\ outbox' = IF currentRoomId[socket] # NoRoom
                 THEN EmitToOthers(socket, currentRoomId[socket], "signal", <<>>)
                 ELSE <<>>
    /\ lastEvent' = InputEvent("signal", socket, NoPayload, 0)
    /\ UNCHANGED <<status, activeUsers, activeRooms, matchmaking, currentRoomId,
                   joined, nextRoom, registrations>>

\* socket.on('message') of part_001: io.to(room), the sender included
p1_message(socket) ==
    /\ IsConnected(socket)
    /\ outbox' = IF currentRoomId[socket] # NoRoom /\ MapHas(activeUsers, socket)
                 THEN EmitToRoom(socket, currentRoomId[socket], "message",
                                 activeUsers[socket].name)
                 ELSE <<>>
    /\ lastEvent' = InputEvent("message", socket, NoPayload, 0)
    /\ UNCHANGED <<status, activeUsers, activeRooms, matchmaking, currentRoomId,
                   joined, nextRoom, registrations>>

\* socket.on('disconnect') of part_001: no test for a profile
p1_disconnect(socket) ==
    /\ IsConnected(socket)
    /\ status' = [status EXCEPT ![socket] = "closed"]
    /\ joined' = [joined EXCEPT ![socket] = {}]
    /\ lastEvent' = InputEvent("disconnect", socket, NoPayload, 0)
    /\ currentRoomId' = [currentRoomId EXCEPT ![socket] = NoRoom]
    /\ UNCHANGED <<nextRoom, registrations>>
    /\ IF currentRoomId[socket] # NoRoom
       THEN /\ outbox' = EmitToOthers(socket, currentRoomId[socket],
                                      "partner_disconnected", <<>>)
            /\ activeRooms' = MapDelete(activeRooms, currentRoomId[socket])
       ELSE /\ outbox' = <<>>
            /\ UNCHANGED activeRooms
    /\ activeUsers' = MapDelete(activeUsers, socket)
    /\ matchmaking' = [lvl \in Levels |-> Filter(matchmaking[lvl], socket)]

NextP1 ==
    \/ \E s \in Ids : connection(s)
    \/ \E s \in Ids, p \in Payloads : p1_register_user(s, p.name, p.level)
    \/ \E s \in Ids : p1_signal(s)
    \/ \E s \in Ids : p1_message(s)
    \/ \E s \in Ids : p1_disconnect(s)

SpecP1 == Init /\ [][NextP1]_vars

\* The part of NextP1 that changes more than outbox and lastEvent.
NextP1Match ==
    \/ \E s \in Ids : connection(s)
    \/ \E s \in Ids, p \in Payloads : p1_register_user(s, p.name, p.level)
    \/ \E s \in Ids : p1_disconnect(s)

SpecP1Match == Init /\ [][NextP1Match]_vars

\* ================================================= src/unnamed/part_002 ===
\* The variant keeps the room reference in socket.sessionID (modelled by
\* currentRoomId), the registry in DB.users (activeUsers), the rooms in
\* DB.rooms (activeRooms, `peers` modelled by participants) and the queues in
\* DB.queues (matchmaking).

\* data.name.substring(0, 25) in the register_user handler of part_002.
P2_NAME_MAX_LEN == 25

\* The retry test of engineMatch:
\*   if (!partnerSocket || partnerSocket.id === socket.id)
p2_PartnerUnavailable(partnerData, socket) ==
    \/ ~IsConnected(partnerData.id)
    \/ partnerData.id = socket

\* The recursion of engineMatch on a non-empty queue.
RECURSIVE p2_ShiftUnavailable(_, _)
p2_ShiftUnavailable(queue, socket) ==
    IF queue = <<>> THEN <<>>
    ELSE IF p2_PartnerUnavailable(Head(queue), socket)
         THEN p2_ShiftUnavailable(Tail(queue), socket)
         ELSE queue

\* The number of recursive calls of engineMatch(socket, level).
p2_Retries(socket, level) ==
    IF level \notin Levels THEN 0
    ELSE Len(matchmaking[level]) - Len(p2_ShiftUnavailable(matchmaking[level], socket))

engineMatch(socket, level, users) ==
    IF level \notin Levels
    THEN \* targetQueue is undefined: targetQueue.length throws a TypeError
         /\ outbox' = <<>>
         /\ UNCHANGED <<activeRooms, matchmaking, currentRoomId, joined, nextRoom>>
    ELSE LET targetQueue == matchmaking[level]
             rest == p2_ShiftUnavailable(targetQueue, socket)
         IN IF rest # <<>>
            THEN LET partner == Head(rest).id
                     sessionID == nextRoom
                 IN /\ nextRoom' = nextRoom + 1
                    /\ matchmaking' = [matchmaking EXCEPT ![level] = Tail(rest)]
                    /\ joined' = [joined EXCEPT ![socket] = @ \cup {sessionID},
                                                ![partner] = @ \cup {sessionID}]
                    /\ currentRoomId' = [currentRoomId EXCEPT ![socket] = sessionID,
                                                              ![partner] = sessionID]
                    /\ activeRooms' = MapSet(activeRooms, sessionID,
                           [id |-> sessionID, participants |-> <<socket, partner>>])
                    /\ outbox' =
                         IF MapHas(users, partner)
                         THEN << Event(socket, "match_found", socket, sessionID,
                                       "initiator", users[partner].name),
                                 Event(partner, "match_found", socket, sessionID,
                                       "receiver", users[socket].name) >>
                         ELSE <<>>  \* DB.users.get(...).name throws before the first emit
            ELSE /\ matchmaking' = [matchmaking EXCEPT ![level] = <<[id |-> socket]>>]
                 /\ outbox' = <<>>
                 /\ UNCHANGED <<activeRooms, currentRoomId, joined, nextRoom>>

\* socket.on('register_user') of part_002
p2_register_user(socket, name, level) ==
    /\ IsConnected(socket)
    /\ registrations < MaxRegistrations
    /\ registrations' = registrations + 1
    /\ UNCHANGED status
    /\ IF name = <<>> \/ level = ""
       THEN /\ outbox' = <<Event(socket, "sys_error", socket, NoRoom, "", <<>>)>>
            /\ lastEvent' = InputEvent("register_user", socket,
                                       [name |-> name, level |-> level], 0)
            /\ UNCHANGED <<activeUsers, activeRooms, matchmaking, currentRoomId,
                           joined, nextRoom>>
       ELSE LET users == MapSet(activeUsers, socket,
                                [id |-> socket,
                                 name |-> Substring(name, P2_NAME_MAX_LEN),
                                 level |-> level])
            IN /\ activeUsers' = users
               /\ lastEvent' = InputEvent("register_user", socket,
                                          [name |-> name, level |-> level],
                                          p2_Retries(socket, level))
               /\ engineMatch(socket, level, users)

\* socket.on('signal') of part_002
p2_signal(socket) ==
    /\ IsConnected(socket)
    /\ outbox' = IF currentRoomId[socket] # NoRoom
                 THEN EmitToOthers(socket, currentRoomId[socket], "signal", <<>>)
                 ELSE <<>>
    /\ lastEvent' = InputEvent("signal", socket, NoPayload, 0)
    /\ UNCHANGED <<status, activeUsers, activeRooms, matchmaking, currentRoomId,
                   joined, nextRoom, registrations>>

\* socket.on('message') of part_002: io.to(sessionID), the sender included
p2_message(socket) ==
    /\ IsConnected(socket)
    /\ outbox' = IF MapHas(activeUsers, socket) /\ currentRoomId[socket] # NoRoom
                 THEN EmitToRoom(socket, currentRoomId[socket], "message",
                                 activeUsers[socket].name)
                 ELSE <<>>
    /\ lastEvent' = InputEvent("message", socket, NoPayload, 0)
    /\ UNCHANGED <<status, activeUsers, activeRooms, matchmaking, currentRoomId,
                   joined, nextRoom, registrations>>

\* socket.on('disconnect') of part_002
p2_disconnect(socket) ==
    /\ IsConnected(socket)
    /\ status' = [status EXCEPT ![socket] = "closed"]
    /\ joined' = [joined EXCEPT ![socket] = {}]
    /\ lastEvent' = InputEvent("disconnect", socket, NoPayload, 0)
    /\ currentRoomId' = [currentRoomId EXCEPT ![socket] = NoRoom]
    /\ UNCHANGED <<nextRoom, registrations>>
    /\ IF MapHas(activeUsers, socket)
       THEN /\ matchmaking' = [l \in Levels |-> Filter(matchmaking[l], socket)]
            /\ IF currentRoomId[socket] # NoRoom
               THEN /\ outbox' = EmitToOthers(socket, currentRoomId[socket],
                                              "partner_offline", <<>>)
                    /\ activeRooms' = MapDelete(activeRooms, currentRoomId[socket])
               ELSE /\ outbox' = <<>>
                    /\ UNCHANGED activeRooms
            /\ activeUsers' = MapDelete(activeUsers, socket)
       ELSE /\ outbox' = <<>>
            /\ UNCHANGED <<activeUsers, activeRooms, matchmaking>>

NextP2 ==
    \/ \E s \in Ids : connection(s)
    \/ \E s \in Ids, p \in Payloads : p2_register_user(s, p.name, p.level)
    \/ \E s \in Ids : p2_signal(s)
    \/ \E s \in Ids : p2_message(s)
    \/ \E s \in Ids : p2_disconnect(s)

SpecP2 == Init /\ [][NextP2]_vars

\* The part of NextP2 that changes more than outbox and lastEvent.
NextP2Match ==
    \/ \E s \in Ids : connection(s)
    \/ \E s \in Ids, p \in Payloads : p2_register_user(s, p.name, p.level)
    \/ \E s \in Ids : p2_disconnect(s)

SpecP2Match == Init /\ [][NextP2Match]_vars

\* ============================================================ properties ===

\* The participants of a room as a set.
Participants(room) == {room.participants[i] : i \in 1..Len(room.participants)}

\* The rooms of the room table that list id as a participant.
RoomsOf(id) == {r \in DOMAIN activeRooms : id \in Participants(activeRooms[r])}

\* id holds a room reference that names a room of the table listing id.
InLiveSession(id) ==
    /\ currentRoomId[id] # NoRoom
    /\ currentRoomId[id] \in RoomsOf(id)

\* The queue entries of id, over all tiers.
QueueEntries(id) ==
    {<<lvl, i>> \in Levels \X (1..MaxRegistrations) :
        i <= Len(matchmaking[lvl]) /\ matchmaking[lvl][i].id = id}

\* The step is the handling of a register_user event of socket s whose
\* payload has a name and a level.
RegisterStep(s) ==
    /\ lastEvent'.op = "register_user"
    /\ lastEvent'.id = s
    /\ registrations' = registrations + 1
    /\ lastEvent'.payload.name # <<>>
    /\ lastEvent'.payload.level # ""

\* The step is a registration of socket s into tier T, one of the six tiers.
RegisterInto(s, T) ==
    /\ RegisterStep(s)
    /\ lastEvent'.payload.level = T

\* The step is the handling of the disconnect of socket s.
DisconnectStep(s) ==
    /\ lastEvent'.op = "disconnect"
    /\ lastEvent'.id = s
    /\ status[s] = "open"
    /\ status'[s] = "closed"

\* C1: no live connection is at the same time an entry of a tier queue and a
\* participant of a session it holds a reference to.
C1_QueueOrSession ==
    \A s \in Ids : IsConnected(s) => ~(InAnyQueue(s) /\ InLiveSession(s))

\* C2: an identity has at most one queue entry in total over the six tiers.
C2_OneQueueEntry ==
    \A s \in Ids : Cardinality(QueueEntries(s)) <= 1

\* C3: an identity is a participant of at most one session of the session
\* table.
C3_OneSession ==
    \A s \in Ids : Cardinality(RoomsOf(s)) <= 1

\* C4: every session of the session table has exactly two participants, and
\* the two are distinct identities.
C4_TwoDistinctParticipants ==
    \A r \in DOMAIN activeRooms :
        /\ Len(activeRooms[r].participants) = 2
        /\ activeRooms[r].participants[1] # activeRooms[r].participants[2]

\* C5: a room reference held by a live connection names a room that is in
\* the session table and lists that connection as a participant.
C5_SessionRefValid ==
    \A s \in Ids :
        (IsConnected(s) /\ currentRoomId[s] # NoRoom) => InLiveSession(s)

\* x and y are the two participants of one live session both refer to.
Matched(x, y) ==
    /\ x # y
    /\ InLiveSession(x)
    /\ InLiveSession(y)
    /\ currentRoomId[x] = currentRoomId[y]
    /\ Participants(activeRooms[currentRoomId[x]]) = {x, y}

\* The events of the outbox addressed to socket t with event name ev.
Received(box, t, ev) == {i \in 1..Len(box) : box[i].to = t /\ box[i].ev = ev}

\* C6: when X and Y are matched and X disconnects, Y receives exactly one
\* partner_disconnected, the session leaves the session table and Y's own
\* session reference is cleared.
C6_PartnerCleared ==
    [][\A x, y \in Ids :
        (Matched(x, y) /\ DisconnectStep(x)) =>
            /\ Cardinality(Received(outbox', y, "partner_disconnected")) = 1
            /\ currentRoomId[x] \notin DOMAIN activeRooms'
            /\ currentRoomId'[y] = NoRoom]_vars

\* C7: when a connection that is in a session registers again, that session
\* is torn down first: the partner is notified, the session leaves the
\* session table and both references to it are gone.
C7_ReRegisterTearsDown ==
    [][\A x, y \in Ids :
        (Matched(x, y) /\ RegisterStep(x)) =>
            /\ currentRoomId[x] \notin DOMAIN activeRooms'
            /\ currentRoomId'[x] # currentRoomId[x]
            /\ currentRoomId'[y] # currentRoomId[x]]_vars

\* C8: for every match that is formed between a registrant and another,
\* queued connection, the connection whose registration formed it receives
\* match_found with the initiator/caller role, the queued connection receives
\* match_found with the receiver role, and both events carry the id of the
\* new session.
C8_Roles ==
    [][\A s \in Ids :
        (/\ RegisterStep(s)
         /\ nextRoom' # nextRoom
         /\ Participants(activeRooms'[nextRoom]) # {s}) =>
            LET room == activeRooms'[nextRoom]
                partner == room.participants[2]
            IN /\ room.participants[1] = s
               /\ \E i \in Received(outbox', s, "match_found") :
                     /\ outbox'[i].role \in {"caller", "initiator"}
                     /\ outbox'[i].room = nextRoom
               /\ \E j \in Received(outbox', partner, "match_found") :
                     /\ outbox'[j].role = "receiver"
                     /\ outbox'[j].room = nextRoom]_vars

\* The positions of queue q that hold a live candidate other than s.
LiveCandidates(q, s) == {i \in 1..Len(q) : IsConnected(q[i].id) /\ q[i].id # s}

\* C9: a registration into tier T is matched with the earliest-enqueued live
\* candidate of T's queue other than the registrant when there is one (the
\* entries behind it keep their order), and otherwise forms no session and
\* leaves the registrant at the tail of T's queue.
C9_FifoMatch ==
    [][\A s \in Ids, T \in Levels :
        RegisterInto(s, T) =>
            LET q == matchmaking[T]
                cand == LiveCandidates(q, s)
            IN IF cand # {}
               THEN LET first == CHOOSE i \in cand : \A j \in cand : i <= j
                    IN /\ nextRoom' = nextRoom + 1
                       /\ DOMAIN activeRooms' = DOMAIN activeRooms \cup {nextRoom}
                       /\ activeRooms'[nextRoom].participants = <<s, q[first].id>>
                       /\ currentRoomId'[s] = nextRoom
                       /\ currentRoomId'[q[first].id] = nextRoom
                       /\ matchmaking'[T] = SubSeq(q, first + 1, Len(q))
               ELSE /\ nextRoom' = nextRoom
                    /\ activeRooms' = activeRooms
                    /\ matchmaking'[T] # <<>>
                    /\ matchmaking'[T][Len(matchmaking'[T])].id = s]_vars

\* A match was just formed: the registrant got the caller's match_found and
\* a different, queued connection the receiver's.
C9_Witness ==
    /\ lastEvent.op = "register_user"
    /\ \E p \in Ids \ {lastEvent.id} :
          /\ Matched(lastEvent.id, p)
          /\ Received(outbox, lastEvent.id, "match_found") # {}
          /\ Received(outbox, p, "match_found") # {}

\* C10: no session is ever formed with an identity whose connection has
\* disconnected, and a registration into a tier whose queue holds no live
\* entry (it is empty, or holds only entries of disconnected connections)
\* forms no session and leaves the registrant waiting in that tier's queue.
C10_NoDeadPartner ==
    [][\A y \in Ids, T \in Levels :
        RegisterInto(y, T) =>
            LET q == matchmaking[T]
            IN /\ \A r \in DOMAIN activeRooms' \ DOMAIN activeRooms :
                     \A p \in Participants(activeRooms'[r]) : IsConnected(p)
               /\ (\A i \in 1..Len(q) : ~IsConnected(q[i].id)) =>
                     /\ activeRooms' = activeRooms
                     /\ y \in QueueIds(matchmaking'[T])]_vars

\* A registrant has just been left waiting after the entry of a disconnected
\* connection was popped and discarded.
C10_Witness ==
    /\ lastEvent.op = "register_user"
    /\ lastEvent.retries >= 1
    /\ IsConnected(lastEvent.id)
    /\ lastEvent.payload.level \in Levels
    /\ InQueue(lastEvent.id, lastEvent.payload.level)
    /\ currentRoomId[lastEvent.id] = NoRoom
    /\ \E x \in Ids : status[x] = "closed"

\* The step is the handling of a relay event (signal, typing or chat message)
\* sent by socket s.
RelayOps == {"signal", "typing_status", "typing", "message"}
RelayStep(s) ==
    /\ lastEvent'.op \in RelayOps
    /\ lastEvent'.id = s

\* t is the session partner of s as the two sockets see it: another live
\* connection whose room reference is the one s holds.
CurrentPartner(s, t) ==
    /\ t # s
    /\ IsConnected(t)
    /\ currentRoomId[s] # NoRoom
    /\ currentRoomId[t] = currentRoomId[s]

\* C11: a signal, typing or chat payload sent by a connection goes to no
\* connection other than the sender and the sender's current session partner,
\* and a signal or typing payload of a matched sender reaches the partner
\* exactly once and the sender not at all.
C11_RelayScoped ==
    [][\A s \in Ids :
        RelayStep(s) =>
            /\ \A i \in 1..Len(outbox') :
                  outbox'[i].to = s \/ CurrentPartner(s, outbox'[i].to)
            /\ \A y \in Ids :
                  (Matched(s, y) /\ lastEvent'.op # "message") =>
                      /\ Cardinality({i \in 1..Len(outbox') : outbox'[i].to = y}) = 1
                      /\ \A i \in 1..Len(outbox') : outbox'[i].to = y]_vars

\* s has no active session to relay into: it has no profile, or its profile
\* has no session reference.
OutOfSession(s) ==
    \/ ~MapHas(activeUsers, s)
    \/ currentRoomId[s] = NoRoom

C13_MessageToBoth ==
    [][\A s, y \in Ids :
        (Matched(s, y) /\ lastEvent'.op = "message" /\ lastEvent'.id = s) =>
            /\ Received(outbox', s, "message") # {}
            /\ Received(outbox', y, "message") # {}]_vars

\* String.prototype.trim on a sequence of characters.
RECURSIVE TrimLeft(_)
TrimLeft(n) == IF n # <<>> /\ Head(n) = " " THEN TrimLeft(Tail(n)) ELSE n
RECURSIVE TrimRight(_)
TrimRight(n) ==
    IF n # <<>> /\ n[Len(n)] = " " THEN TrimRight(SubSeq(n, 1, Len(n) - 1)) ELSE n
Trim(n) == TrimRight(TrimLeft(n))

\* A register payload the specification rejects: the name is empty after
\* trimming, or the tier is not one of the six.
InvalidRegistration(payload) ==
    \/ Trim(payload.name) = <<>>
    \/ payload.level \notin Levels

\* The names of the error event in the variants.
ErrorEvents == {"sys_error", "system_error"}

\* C14: a register event with an empty name or an unrecognized tier is
\* rejected: the offending connection, and no other, receives an error event,
\* and the registry, the tier queues, the session table and the session
\* references are left as they were.
C14_InvalidRejected ==
    [][\A s \in Ids :
        (/\ lastEvent'.op = "register_user"
         /\ lastEvent'.id = s
         /\ registrations' = registrations + 1
         /\ InvalidRegistration(lastEvent'.payload)) =>
            /\ outbox' # <<>>
            /\ \A i \in 1..Len(outbox') :
                  outbox'[i].to = s /\ outbox'[i].ev \in ErrorEvents
            /\ UNCHANGED <<activeUsers, matchmaking, activeRooms, currentRoomId>>]_vars

\* String.prototype.toUpperCase on the level strings of Payloads.
ToUpperCase(level) == IF level = "a1" THEN "A1" ELSE level

\* C15: tier names are case-normalized on registration: a registration whose
\* tier is one of the six up to letter case is matched with the live candidate
\* waiting in that tier's queue, and waits in that queue when there is none.
C15_TierCaseNormalized ==
    [][\A s \in Ids :
        (RegisterStep(s) /\ ToUpperCase(lastEvent'.payload.level) \in Levels) =>
            LET T == ToUpperCase(lastEvent'.payload.level)
                cand == LiveCandidates(matchmaking[T], s)
            IN IF cand # {}
               THEN /\ nextRoom' = nextRoom + 1
                    /\ \E i \in cand :
                          Participants(activeRooms'[nextRoom]) = {s, matchmaking[T][i].id}
               ELSE s \in QueueIds(matchmaking'[T])]_vars

\* C16: once the disconnect of a connection has been handled, its identity
\* has no entry in any tier queue, is a participant of no session of the
\* session table and has no profile in the registry.
C16_DisconnectRemovesAll ==
    [][\A s \in Ids :
        DisconnectStep(s) =>
            /\ \A lvl \in Levels : s \notin QueueIds(matchmaking'[lvl])
            /\ \A r \in DOMAIN activeRooms' : s \notin Participants(activeRooms'[r])
            /\ ~MapHas(activeUsers', s)]_vars

\* C17: teardown is idempotent: the disconnect of a connection that has no
\* profile changes no tier queue, no session and no profile, and emits no
\* outbound event.
C17_TeardownIdempotent ==
    [][\A s \in Ids :
        (DisconnectStep(s) /\ ~MapHas(activeUsers, s)) =>
            /\ outbox' = <<>>
            /\ UNCHANGED <<activeUsers, matchmaking, activeRooms>>
            /\ \A t \in Ids \ {s} : currentRoomId'[t] = currentRoomId[t]]_vars

\* A connection that never registered has just disconnected while two others
\* are in the session that the only two registrations formed.
C17_Witness ==
    /\ lastEvent.op = "disconnect"
    /\ status[lastEvent.id] = "closed"
    /\ registrations = 2
    /\ outbox = <<>>
    /\ \E x, y \in Ids \ {lastEvent.id} : Matched(x, y)

\* C18: a leave event sent by a queued or matched connection tears it down
\* as a disconnect does: the connection is left in no tier queue, and when it
\* was matched its partner receives partner_disconnected and the session
\* leaves the session table.
C18_LeaveTearsDown ==
    [][\A s \in Ids :
        (lastEvent'.op = "leave" /\ lastEvent'.id = s) =>
            /\ \A lvl \in Levels : s \notin QueueIds(matchmaking'[lvl])
            /\ \A y \in Ids :
                  Matched(s, y) =>
                      /\ Received(outbox', y, "partner_disconnected") # {}
                      /\ currentRoomId[s] \notin DOMAIN activeRooms']_vars

\* C19: the dead-candidate skip of one registration into tier T ends after at
\* most as many retries as T's queue had entries: every retry discards one
\* unavailable entry from the head, no discarded entry comes back, and the
\* call ends with a match with the first available entry or, when every
\* entry was discarded, with the registrant as the only entry of the queue.
C19_SkipTerminates ==
    [][\A s \in Ids, T \in Levels :
        RegisterInto(s, T) =>
            LET q == matchmaking[T]
                n == lastEvent'.retries
            IN /\ n <= Len(q)
               /\ \A i \in 1..n : ~IsConnected(q[i].id) \/ q[i].id = s
               /\ \/ /\ n < Len(q)
                     /\ IsConnected(q[n + 1].id)
                     /\ q[n + 1].id # s
                     /\ nextRoom' = nextRoom + 1
                     /\ activeRooms'[nextRoom].participants = <<s, q[n + 1].id>>
                     /\ matchmaking'[T] = SubSeq(q, n + 2, Len(q))
                  \/ /\ n = Len(q)
                     /\ nextRoom' = nextRoom
                     /\ activeRooms' = activeRooms
                     /\ Len(matchmaking'[T]) = 1
                     /\ matchmaking'[T][1].id = s]_vars

\* A registration has just discarded the one entry of its tier's queue and
\* left the registrant as the only entry.
C19_Witness ==
    /\ lastEvent.op = "register_user"
    /\ lastEvent.payload.level \in Levels
    /\ lastEvent.retries = 1
    /\ Len(matchmaking[lastEvent.payload.level]) = 1
    /\ matchmaking[lastEvent.payload.level][1].id = lastEvent.id

C21_SameTier ==
    [][nextRoom' # nextRoom =>
        LET room == activeRooms'[nextRoom]
        IN \A p \in Participants(room) :
              /\ MapHas(activeUsers', p)
              /\ activeUsers'[p].level = room.level]_vars

\* C22: a session ends atomically when the maintenance sweep removes it: after
\* the sweep no connection holds a reference to a session the sweep deleted,
\* and a payload sent by a connection whose session is not in the session
\* table reaches no one.
C22_SweepEndsSession ==
    [][/\ lastEvent'.op = "maintenance" =>
             \A r \in DOMAIN activeRooms \ DOMAIN activeRooms' :
                 \A s \in Ids : currentRoomId'[s] # r
       /\ \A s \in Ids :
             (RelayStep(s) /\ currentRoomId[s] \notin DOMAIN activeRooms) =>
                 outbox' = <<>>]_vars

\* C23: in src/server.js every tier queue holds at most one entry in every
\* reachable state.
C23_QueueAtMostOne ==
    \A lvl \in Levels : Len(matchmaking[lvl]) <= 1

\* Two connections are in a session and a third one, registered after them,
\* is the only entry of a tier queue.
C23_Witness ==
    /\ lastEvent.op = "register_user"
    /\ \E x, y \in Ids \ {lastEvent.id} : Matched(x, y)
    /\ \E lvl \in Levels :
          /\ Len(matchmaking[lvl]) = 1
          /\ matchmaking[lvl][1].id = lastEvent.id

\* C24: every session of activeRooms has two participants, both of them live
\* connections with a profile in activeUsers: no session names a connection
\* that has disconnected.
C24_NoOrphanRoom ==
    \A r \in DOMAIN activeRooms :
        /\ Len(activeRooms[r].participants) = 2
        /\ \A p \in Participants(activeRooms[r]) :
              IsConnected(p) /\ MapHas(activeUsers, p)

====
